---- MODULE Spec2Model ----
\* The CryptoLoyality chaincode (src/chaincodes/crypto-loyality/index.ts, the
\* contract class of lines 38-273 with its helpers) as a state machine over the
\* ledger's key-value world state.
\*
\* Numbers are JavaScript numbers; the model keeps them as fixed-point integers
\* counting quarters (Scale = 4 stands for 1.0), which IEEE doubles represent
\* exactly, so that fractional point values and Math.round's ties are covered.
\*
\* Every `await ctx.stub.getState/putState` is a suspension point.  A handler
\* that starts an async method without awaiting it (registerPurchase lines 264
\* and 267, register line 80) leaves a second coroutine running; which pending
\* stub request completes next is not decided by the contract's code, so the
\* model lets any pending request complete next (answering them in the order
\* they were issued is one of these schedules).  Handlers that are a single
\* chain of awaits with nothing else in flight are one action each.
\*
\* The world state is what getState returns inside the contract: a putState is
\* visible to later reads once it has been answered.  Each invocation is one
\* transaction; coroutines it left waiting when the next transaction starts
\* are never answered.
EXTENDS Integers, Sequences, FiniteSets, TLC

\* ---------------------------------------------------------------- bounds
MaxCalls == 4

\* ---------------------------------------------------------------- inputs
ShopIds == {"s1"}
CustomerIds == {"c1", "c2"}
ClientIds == {"x1"}
UserIds == {"u1"}
RoleStrings == {"shop", "customer", "manager"}
Kinds == {"k"}
Vals == {"v"}
IdBases == {"b"}
Owners == {"o1", "o2"}
Ns == {0, 1, 2}
CouponIndexes == {0, 1}
Scale == 4
Multipliers == {4, 8}
MinPrices == {2}
MaxPointsSet == {1, 5}
PaidAmounts == {1, 2, 6}
UpdatePoints == {0, 4}
AddAmounts == {-2, 1}
ValidUntil == "2030-01-01"
SeriesId == "series1"

\* ---------------------------------------------------------------- keys
COUPONTYPE == "COUPONTYPE"
COUPON == "COUPON"
SHOP == "SHOP"
CUSTOMER == "CUSTOMER"
SHOP_SPECIFIC_TOKEN == "SHOP_SPECIFIC_TOKEN"
USER == "USER"

\* ctx.stub.createCompositeKey(objectType, attributes): injective in both
createCompositeKey(objectType, attributes) == <<objectType>> \o attributes

KeygenSst(shopId, customerId) == createCompositeKey(SHOP_SPECIFIC_TOKEN, <<shopId, customerId>>)
KeygenCouponType(shopId, kind, val) == createCompositeKey(COUPONTYPE, <<shopId, kind, val>>)
KeygenUser(clientId) == createCompositeKey(USER, <<clientId>>)
KeygenShop(id) == createCompositeKey(SHOP, <<id>>)
KeygenCustomer(id) == createCompositeKey(CUSTOMER, <<id>>)
\* the coupon id `${idBase}_${i}` is the pair <<idBase, i>>
CouponId(idBase, i) == <<idBase, i>>
KeyCoupon(id, typeId) == createCompositeKey(COUPON, <<id, typeId>>)

\* the raw keys a caller passes to createCoupon as typeId
TypeIds == {KeygenCouponType(s, k, v) : s \in ShopIds, k \in Kinds, v \in Vals}
             \cup {KeygenShop(s) : s \in ShopIds}

Keys ==
    {KeygenShop(s) : s \in ShopIds}
    \cup {KeygenCustomer(c) : c \in CustomerIds}
    \cup {KeygenSst(s, c) : s \in ShopIds, c \in CustomerIds}
    \cup {KeygenUser(x) : x \in ClientIds}
    \cup {KeygenCouponType(s, k, v) : s \in ShopIds, k \in Kinds, v \in Vals}
    \cup {KeyCoupon(CouponId(b, i), t) : b \in IdBases, i \in CouponIndexes, t \in TypeIds}

\* ---------------------------------------------------------------- values
\* A stored value is a Buffer: the empty buffer for an absent key, otherwise the
\* JSON text of one record, kept as the one-element sequence holding the record.
EmptyBuffer == <<>>
Stringify(record) == <<record>>
JSONParse(buff) == buff[1]
\* buff !== null && buff.length > 0
NonEmpty(buff) == Len(buff) > 0

\* ---------------------------------------------------------------- arithmetic
\* a * b on fixed-point numbers
Mul(a, b) == (a * b) \div Scale
\* Math.round: the nearest integer, ties towards +Infinity, i.e. floor(x + 0.5)
MathRound(x) == ((2 * x + Scale) \div (2 * Scale)) * Scale

\* ---------------------------------------------------------------- state
VARIABLES
    ledger,    \* world state: key -> Buffer
    call,      \* the invocation in progress or last finished
    outcome,   \* what it reported: "none" while running
    tasks,     \* position of each coroutine of the invocation
    loc,       \* the coroutines' local variables
    writes,    \* keys of the putState calls issued by the invocation, in order
    pre,       \* world state when the invocation started
    prev,      \* the invocation before: operation, identifying key, outcome,
               \* arguments and the world state it started from
    ncalls     \* invocations so far

vars == <<ledger, call, outcome, tasks, loc, writes, pre, prev, ncalls>>

TaskIds == {"main", "upd", "crt", "put"}

NoRecord == [id |-> "none"]
NoKey == <<"NONE">>
NoLoc == [theShop |-> NoRecord, theCustomer |-> NoRecord, theToken |-> NoRecord,
          newUser |-> NoRecord, freePointsToBeGiven |-> 0,
          shopSpecificPointsToBeGiven |-> 0, addAmount |-> 0]
NoCall == [op |-> "none", key |-> NoKey, shopId |-> "-", customerId |-> "-",
           client |-> "-", paidAmount |-> 0, n |-> 0]

Successes == {"OK", "OK, but no points were given"}

Init ==
    /\ ledger = [k \in Keys |-> EmptyBuffer]
    /\ call = NoCall
    /\ outcome = "OK"
    /\ tasks = [t \in TaskIds |-> "idle"]
    /\ loc = NoLoc
    /\ writes = <<>>
    /\ pre = [k \in Keys |-> EmptyBuffer]
    /\ prev = [op |-> "none", key |-> NoKey, outcome |-> "OK", call |-> NoCall,
               pre |-> [k \in Keys |-> EmptyBuffer]]
    /\ ncalls = 0

\* a new transaction can be submitted once the previous one has answered
CanInvoke == outcome # "none" /\ ncalls < MaxCalls

Summary == [op |-> call.op, key |-> call.key, outcome |-> outcome, call |-> call, pre |-> pre]

\* a handler that runs as one chain of awaits: answer `out`, world state `led`,
\* putState calls `wr`
Whole(c, out, led, wr) ==
    /\ CanInvoke
    /\ call' = c
    /\ pre' = ledger
    /\ prev' = Summary
    /\ ncalls' = ncalls + 1
    /\ outcome' = out
    /\ ledger' = led
    /\ writes' = wr
    /\ loc' = NoLoc
    /\ tasks' = [t \in TaskIds |->
                   IF t # "main" THEN "idle"
                   ELSE IF out \in Successes THEN "done" ELSE "rejected"]

\* a handler entered: it runs up to its first await, leaving `main` at pc
Enter(c, pc, l) ==
    /\ CanInvoke
    /\ call' = c
    /\ pre' = ledger
    /\ prev' = Summary
    /\ ncalls' = ncalls + 1
    /\ outcome' = "none"
    /\ writes' = <<>>
    /\ loc' = l
    /\ tasks' = [t \in TaskIds |-> IF t = "main" THEN pc ELSE "idle"]
    /\ UNCHANGED ledger

\* ---------------------------------------------------------------- existence
entityExists(key) == NonEmpty(ledger[key])
shopExists(id) == NonEmpty(ledger[createCompositeKey(SHOP, <<id>>)])
customerExists(id) == NonEmpty(ledger[createCompositeKey(CUSTOMER, <<id>>)])
shopSpecificTokenExists(shopId, customerId) ==
    NonEmpty(ledger[createCompositeKey(SHOP_SPECIFIC_TOKEN, <<shopId, customerId>>)])

\* ---------------------------------------------------------------- catalog
\* (mutant) a shop created with freePointsPercentage 0
NewShop_NoFreePoints(id, multiplier, minPrice, maxPoints) ==
    [id |-> id, priceToPointsMultiplier |-> multiplier, minPriceToGetPoints |-> minPrice,
     maxGivenPoints |-> maxPoints, freePointsPercentage |-> 0]

NewShop(id, multiplier, minPrice, maxPoints) ==
    [id |-> id, priceToPointsMultiplier |-> multiplier, minPriceToGetPoints |-> minPrice,
     maxGivenPoints |-> maxPoints, freePointsPercentage |-> Scale]

\* (mutant) a stored shop replaced by the new one
createShop_Overwrite(id, multiplier, minPrice, maxPoints) ==
    LET key == KeygenShop(id)
        c == [NoCall EXCEPT !.op = "createShop", !.key = key, !.shopId = id]
    IN  Whole(c, "OK",
              [ledger EXCEPT ![key] = Stringify(NewShop(id, multiplier, minPrice, maxPoints))],
              <<key>>)

createShop(id, multiplier, minPrice, maxPoints) ==
    LET key == KeygenShop(id)
        c == [NoCall EXCEPT !.op = "createShop", !.key = key, !.shopId = id]
    IN  IF shopExists(id)
        THEN Whole(c, "createShop: shop already exists", ledger, <<>>)
        ELSE Whole(c, "OK",
                   [ledger EXCEPT ![key] = Stringify(NewShop(id, multiplier, minPrice, maxPoints))],
                   <<key>>)

NewCustomer(id) == [id |-> id, points |-> 0]

createCustomer(id) ==
    LET key == KeygenCustomer(id)
        c == [NoCall EXCEPT !.op = "createCustomer", !.key = key, !.customerId = id]
    IN  IF customerExists(id)
        THEN Whole(c, "createCustomer: customer already exists", ledger, <<>>)
        ELSE Whole(c, "OK", [ledger EXCEPT ![key] = Stringify(NewCustomer(id))], <<key>>)

NewCouponType(shopId, kind, val) ==
    [shopId |-> shopId, kind |-> kind, val |-> val, active |-> TRUE]

createCouponType(shopId, kind, val) ==
    LET key == createCompositeKey(COUPONTYPE, <<shopId, kind, val>>)
        c == [NoCall EXCEPT !.op = "createCouponType", !.key = key, !.shopId = shopId]
    IN  Whole(c, "OK",
              [ledger EXCEPT ![key] = Stringify(NewCouponType(shopId, kind, val))],
              <<key>>)

\* theTypeId.active of the parsed value; a record without the field gives undefined
ActiveOf(record) == IF "active" \in DOMAIN record THEN record.active ELSE FALSE

NewCoupon(idBase, i, typeId, owner) ==
    [id |-> CouponId(idBase, i), typeId |-> typeId, owner |-> owner,
     validUntil |-> ValidUntil, seriesId |-> SeriesId]

\* (mutant) a coupon already stored under a key is kept
CouponsWritten_KeepExisting(idBase, typeId, owner, n) ==
    [k \in Keys |->
        IF (\E i \in 0 .. (n - 1) : k = KeyCoupon(CouponId(idBase, i), typeId)) /\ ~NonEmpty(ledger[k])
        THEN Stringify(NewCoupon(idBase,
                                 CHOOSE i \in 0 .. (n - 1) : k = KeyCoupon(CouponId(idBase, i), typeId),
                                 typeId, owner))
        ELSE ledger[k]]

\* the world state after the loop of lines 187-194
CouponsWritten(idBase, typeId, owner, n) ==
    [k \in Keys |->
        IF \E i \in 0 .. (n - 1) : k = KeyCoupon(CouponId(idBase, i), typeId)
        THEN Stringify(NewCoupon(idBase,
                                 CHOOSE i \in 0 .. (n - 1) : k = KeyCoupon(CouponId(idBase, i), typeId),
                                 typeId, owner))
        ELSE ledger[k]]

\* (mutant) the type read and checked before n
createCoupon_TypeFirst(idBase, typeId, owner, n) ==
    LET c == [NoCall EXCEPT !.op = "createCoupon",
                            !.key = KeyCoupon(CouponId(idBase, 0), typeId), !.n = n]
        valueBuffer == ledger[typeId]
    IN  IF Len(valueBuffer) < 1
        THEN Whole(c, "createCoupon: the TypeID does not exist", ledger, <<>>)
        ELSE IF ~ActiveOf(JSONParse(valueBuffer))
        THEN Whole(c, "createCoupon: the coupon type is not currently active", ledger, <<>>)
        ELSE IF n < 1
        THEN Whole(c, "createCoupon: N must be 1 or higher", ledger, <<>>)
        ELSE Whole(c, "OK", CouponsWritten(idBase, typeId, owner, n),
                   [i \in 1 .. n |-> KeyCoupon(CouponId(idBase, i - 1), typeId)])

createCoupon(idBase, typeId, owner, n) ==
    LET c == [NoCall EXCEPT !.op = "createCoupon",
                            !.key = KeyCoupon(CouponId(idBase, 0), typeId), !.n = n]
        valueBuffer == ledger[typeId]
    IN  IF n < 1
        THEN Whole(c, "createCoupon: N must be 1 or higher", ledger, <<>>)
        ELSE IF Len(valueBuffer) < 1
        THEN Whole(c, "createCoupon: the TypeID does not exist", ledger, <<>>)
        ELSE IF ~ActiveOf(JSONParse(valueBuffer))
        THEN Whole(c, "createCoupon: the coupon type is not currently active", ledger, <<>>)
        ELSE Whole(c, "OK", CouponsWritten(idBase, typeId, owner, n),
                   [i \in 1 .. n |-> KeyCoupon(CouponId(idBase, i - 1), typeId)])

\* ---------------------------------------------------------------- coroutines
\* coroutine t throws: the handler's own rejection is the transaction's answer,
\* the rejection of a promise nobody awaits is answered to no one
Throw(t, err) ==
    /\ tasks' = [tasks EXCEPT ![t] = "rejected"]
    /\ outcome' = IF t = "main" THEN err ELSE outcome

Return(t, out) ==
    /\ tasks' = [tasks EXCEPT ![t] = "done"]
    /\ outcome' = IF t = "main" THEN out ELSE outcome

Frame == UNCHANGED <<call, pre, prev, ncalls>>

\* -------- updateCustomer(c), lines 214-224, run by the handler itself ("main")
\* or started and not awaited by registerPurchase ("upd"); c is loc.theCustomer
updateCustomer(id, points) ==
    Enter([NoCall EXCEPT !.op = "updateCustomer", !.key = KeygenCustomer(id), !.customerId = id],
          "uc_customerExists",
          [NoLoc EXCEPT !.theCustomer = [id |-> id, points |-> points]])

\* line 215 answered; line 221 issues the putState
UcCustomerExists(t) ==
    /\ tasks[t] = "uc_customerExists"
    /\ IF ~customerExists(loc.theCustomer.id)
       THEN /\ Throw(t, "updateCustomer: customer does not exist")
            /\ UNCHANGED writes
       ELSE /\ tasks' = [tasks EXCEPT ![t] = "uc_putState"]
            /\ writes' = Append(writes, KeygenCustomer(loc.theCustomer.id))
            /\ UNCHANGED outcome
    /\ UNCHANGED <<ledger, loc>>
    /\ Frame

\* (mutant) the record put under every customer's key
UcPutState_EveryCustomer(t) ==
    /\ tasks[t] = "uc_putState"
    /\ ledger' = [k \in Keys |-> IF k[1] = CUSTOMER THEN Stringify(loc.theCustomer) ELSE ledger[k]]
    /\ Return(t, "OK")
    /\ UNCHANGED <<loc, writes>>
    /\ Frame

\* line 221 answered
UcPutState(t) ==
    /\ tasks[t] = "uc_putState"
    /\ ledger' = [ledger EXCEPT ![KeygenCustomer(loc.theCustomer.id)] = Stringify(loc.theCustomer)]
    /\ Return(t, "OK")
    /\ UNCHANGED <<loc, writes>>
    /\ Frame

\* -------- createShopSpecificToken(shopId, customerId), lines 85-110, run by the
\* handler itself ("main") or started and not awaited by registerPurchase ("crt")
createShopSpecificToken(shopId, customerId) ==
    Enter([NoCall EXCEPT !.op = "createShopSpecificToken",
                         !.key = createCompositeKey(SHOP_SPECIFIC_TOKEN, <<shopId, customerId>>),
                         !.shopId = shopId, !.customerId = customerId],
          "cs_entityExists", NoLoc)

NewSST(shopId, customerId) == [shopId |-> shopId, customerId |-> customerId, amount |-> 0]

\* line 88 answered
CsEntityExists(t) ==
    /\ tasks[t] = "cs_entityExists"
    /\ IF entityExists(createCompositeKey(SHOP_SPECIFIC_TOKEN, <<call.shopId, call.customerId>>))
       THEN Throw(t, "createShopSpecificToken: token already exists")
       ELSE /\ tasks' = [tasks EXCEPT ![t] = "cs_shopExists"]
            /\ UNCHANGED outcome
    /\ UNCHANGED <<ledger, loc, writes>>
    /\ Frame

\* (mutant) the shop not looked up
CsShopExists_Skip(t) ==
    /\ tasks[t] = "cs_shopExists"
    /\ tasks' = [tasks EXCEPT ![t] = "cs_customerExists"]
    /\ UNCHANGED <<ledger, loc, writes, outcome>>
    /\ Frame

\* line 92 answered
CsShopExists(t) ==
    /\ tasks[t] = "cs_shopExists"
    /\ IF ~shopExists(call.shopId)
       THEN Throw(t, "createShopSpecificToken: no shop")
       ELSE /\ tasks' = [tasks EXCEPT ![t] = "cs_customerExists"]
            /\ UNCHANGED outcome
    /\ UNCHANGED <<ledger, loc, writes>>
    /\ Frame

\* line 96 answered; line 107 issues the putState
CsCustomerExists(t) ==
    /\ tasks[t] = "cs_customerExists"
    /\ IF ~customerExists(call.customerId)
       THEN /\ Throw(t, "createShopSpecificToken: no customer")
            /\ UNCHANGED writes
       ELSE /\ tasks' = [tasks EXCEPT ![t] = "cs_putState"]
            /\ writes' = Append(writes, createCompositeKey(SHOP_SPECIFIC_TOKEN, <<call.shopId, call.customerId>>))
            /\ UNCHANGED outcome
    /\ UNCHANGED <<ledger, loc>>
    /\ Frame

\* line 107 answered
CsPutState(t) ==
    /\ tasks[t] = "cs_putState"
    /\ ledger' = [ledger EXCEPT ![createCompositeKey(SHOP_SPECIFIC_TOKEN, <<call.shopId, call.customerId>>)] =
                      Stringify(NewSST(call.shopId, call.customerId))]
    /\ Return(t, "OK")
    /\ UNCHANGED <<loc, writes>>
    /\ Frame

\* -------- increaseShopSpecificToken(shopId, customerId, addAmount), lines
\* 112-128 with CLGetter.sst, lines 326-340; always awaited, so it runs in "main"
increaseShopSpecificToken(shopId, customerId, addAmount) ==
    Enter([NoCall EXCEPT !.op = "increaseShopSpecificToken",
                         !.key = KeygenSst(shopId, customerId),
                         !.shopId = shopId, !.customerId = customerId],
          "inc_entityExists", [NoLoc EXCEPT !.addAmount = addAmount])

\* line 115 answered
IncEntityExists ==
    /\ tasks["main"] = "inc_entityExists"
    /\ IF ~entityExists(KeygenSst(call.shopId, call.customerId))
       THEN Throw("main", "increaseShopSpecificToken: no such token exists yet")
       ELSE /\ tasks' = [tasks EXCEPT !["main"] = "get_entityExists"]
            /\ UNCHANGED outcome
    /\ UNCHANGED <<ledger, loc, writes>>
    /\ Frame

\* line 329 answered
GetEntityExists ==
    /\ tasks["main"] = "get_entityExists"
    /\ IF ~entityExists(KeygenSst(call.shopId, call.customerId))
       THEN Throw("main", "Getter :: SST: no token exists")
       ELSE /\ tasks' = [tasks EXCEPT !["main"] = "get_getState"]
            /\ UNCHANGED outcome
    /\ UNCHANGED <<ledger, loc, writes>>
    /\ Frame

\* (mutant) the amount lowered by addAmount
Increased_Subtracts(theToken, addAmount) == [theToken EXCEPT !.amount = theToken.amount - addAmount]

\* theToken.amount += addAmount
Increased(theToken, addAmount) == [theToken EXCEPT !.amount = theToken.amount + addAmount]

\* line 336 answered; lines 123-125 add and issue the putState
GetGetState ==
    /\ tasks["main"] = "get_getState"
    /\ loc' = [loc EXCEPT !.theToken =
                  Increased(JSONParse(ledger[KeygenSst(call.shopId, call.customerId)]), loc.addAmount)]
    /\ writes' = Append(writes, KeygenSst(call.shopId, call.customerId))
    /\ tasks' = [tasks EXCEPT !["main"] = "inc_putState"]
    /\ UNCHANGED <<ledger, outcome>>
    /\ Frame

\* line 125 answered; the handler (increaseShopSpecificToken itself, or
\* registerPurchase at line 271) returns { success: "OK" }
IncPutState ==
    /\ tasks["main"] = "inc_putState"
    /\ ledger' = [ledger EXCEPT ![KeygenSst(call.shopId, call.customerId)] = Stringify(loc.theToken)]
    /\ Return("main", "OK")
    /\ UNCHANGED <<loc, writes>>
    /\ Frame

\* -------- register(id, uRole), lines 56-83
Null == "null"
UserRoles == {"admin", "shop", "customer"}
userRoleFromString(type) == IF type \in UserRoles THEN type ELSE Null

register(client, id, uRole) ==
    Enter([NoCall EXCEPT !.op = "register", !.key = KeygenUser(client), !.client = client],
          "rg_entityExists", [NoLoc EXCEPT !.newUser = [id |-> id, role |-> uRole]])

\* (mutant) the role parsed before the registration is looked up
RgEntityExists_RoleFirst ==
    /\ tasks["main"] = "rg_entityExists"
    /\ IF userRoleFromString(loc.newUser.role) = Null
       THEN /\ Throw("main", "register: invalid input for User Role")
            /\ UNCHANGED <<writes, loc>>
       ELSE IF entityExists(KeygenUser(call.client))
       THEN /\ Throw("main", "register: a registration already exists")
            /\ UNCHANGED <<writes, loc>>
       ELSE /\ loc' = [loc EXCEPT !.newUser.role = userRoleFromString(loc.newUser.role)]
            /\ writes' = Append(writes, KeygenUser(call.client))
            /\ tasks' = [tasks EXCEPT !["main"] = "done", !["put"] = "rg_putState"]
            /\ outcome' = "OK"
    /\ UNCHANGED ledger
    /\ Frame

\* line 60 answered; line 80 issues the putState without awaiting it and line 82
\* returns
RgEntityExists ==
    /\ tasks["main"] = "rg_entityExists"
    /\ IF entityExists(KeygenUser(call.client))
       THEN /\ Throw("main", "register: a registration already exists")
            /\ UNCHANGED <<writes, loc>>
       ELSE IF userRoleFromString(loc.newUser.role) = Null
       THEN /\ Throw("main", "register: invalid input for User Role")
            /\ UNCHANGED <<writes, loc>>
       ELSE /\ loc' = [loc EXCEPT !.newUser.role = userRoleFromString(loc.newUser.role)]
            /\ writes' = Append(writes, KeygenUser(call.client))
            /\ tasks' = [tasks EXCEPT !["main"] = "done", !["put"] = "rg_putState"]
            /\ outcome' = "OK"
    /\ UNCHANGED ledger
    /\ Frame

\* the putState of line 80 answered
RgPutState ==
    /\ tasks["put"] = "rg_putState"
    /\ ledger' = [ledger EXCEPT ![KeygenUser(call.client)] = Stringify(loc.newUser)]
    /\ Return("put", "OK")
    /\ UNCHANGED <<loc, writes>>
    /\ Frame

\* -------- registerPurchase(shopId, customerId, paidAmount), lines 226-272
\* (mutant) the cap of lines 254-256 left out
SumPoints_NoCap(theShop, paidAmount) == Mul(paidAmount, theShop.priceToPointsMultiplier)

\* lines 248, 254-256: the award before the split
SumPoints(theShop, paidAmount) ==
    LET sumPoints == Mul(paidAmount, theShop.priceToPointsMultiplier)
    IN  IF sumPoints > theShop.maxGivenPoints THEN theShop.maxGivenPoints ELSE sumPoints

\* (mutant) the threshold compared with the wrong field of the shop
BelowMinPrice_WrongField(theShop, paidAmount) == paidAmount < theShop.maxGivenPoints

\* line 250
BelowMinPrice(theShop, paidAmount) == paidAmount < theShop.minPriceToGetPoints

\* line 258
FreePointsToBeGiven(theShop, sumPoints) == MathRound(Mul(sumPoints, theShop.freePointsPercentage))

\* line 259
ShopSpecificPointsToBeGiven(sumPoints, freePointsToBeGiven) == sumPoints - freePointsToBeGiven

registerPurchase(shopId, customerId, paidAmount) ==
    Enter([NoCall EXCEPT !.op = "registerPurchase", !.key = KeygenCustomer(customerId),
                         !.shopId = shopId, !.customerId = customerId,
                         !.paidAmount = paidAmount],
          "rp_customerExists", NoLoc)

\* (mutant) the shop looked up before the customer
RpCustomerExists_ShopFirst ==
    /\ tasks["main"] = "rp_customerExists"
    /\ IF ~shopExists(call.shopId)
       THEN Throw("main", "registerPurchase: no shop")
       ELSE IF ~customerExists(call.customerId)
       THEN Throw("main", "registerPurchase: no customer")
       ELSE /\ tasks' = [tasks EXCEPT !["main"] = "rp_shopExists"]
            /\ UNCHANGED outcome
    /\ UNCHANGED <<ledger, loc, writes>>
    /\ Frame

\* line 227 answered
RpCustomerExists ==
    /\ tasks["main"] = "rp_customerExists"
    /\ IF ~customerExists(call.customerId)
       THEN Throw("main", "registerPurchase: no customer")
       ELSE /\ tasks' = [tasks EXCEPT !["main"] = "rp_shopExists"]
            /\ UNCHANGED outcome
    /\ UNCHANGED <<ledger, loc, writes>>
    /\ Frame

\* line 232 answered
RpShopExists ==
    /\ tasks["main"] = "rp_shopExists"
    /\ IF ~shopExists(call.shopId)
       THEN Throw("main", "registerPurchase: no shop")
       ELSE /\ tasks' = [tasks EXCEPT !["main"] = "rp_getShop"]
            /\ UNCHANGED outcome
    /\ UNCHANGED <<ledger, loc, writes>>
    /\ Frame

\* line 242 answered
RpGetShop ==
    /\ tasks["main"] = "rp_getShop"
    /\ loc' = [loc EXCEPT !.theShop = JSONParse(ledger[createCompositeKey(SHOP, <<call.shopId>>)])]
    /\ tasks' = [tasks EXCEPT !["main"] = "rp_getCustomer"]
    /\ UNCHANGED <<ledger, outcome, writes>>
    /\ Frame

\* line 244 answered; lines 245-266 run: the award is computed, updateCustomer
\* is started (it runs to its first await, line 215) and not awaited, and the
\* handler waits for shopSpecificTokenExists
RpGetCustomer ==
    /\ tasks["main"] = "rp_getCustomer"
    /\ LET theCustomer == JSONParse(ledger[createCompositeKey(CUSTOMER, <<call.customerId>>)])
           sumPoints == SumPoints(loc.theShop, call.paidAmount)
           free == FreePointsToBeGiven(loc.theShop, sumPoints)
           specific == ShopSpecificPointsToBeGiven(sumPoints, free)
       IN  IF BelowMinPrice(loc.theShop, call.paidAmount)
           THEN /\ Return("main", "OK, but no points were given")
                /\ loc' = [loc EXCEPT !.theCustomer = theCustomer]
           ELSE /\ loc' = [loc EXCEPT !.theCustomer = [theCustomer EXCEPT !.points = theCustomer.points + free],
                                      !.freePointsToBeGiven = free,
                                      !.shopSpecificPointsToBeGiven = specific,
                                      !.addAmount = specific]
                /\ tasks' = [tasks EXCEPT !["main"] = "rp_shopSpecificTokenExists",
                                          !["upd"] = "uc_customerExists"]
                /\ UNCHANGED outcome
    /\ UNCHANGED <<ledger, writes>>
    /\ Frame

\* line 266 answered; line 267 starts createShopSpecificToken (it runs to its
\* first await, line 88) without awaiting it; line 269 calls
\* increaseShopSpecificToken, which waits at line 115
RpShopSpecificTokenExists ==
    /\ tasks["main"] = "rp_shopSpecificTokenExists"
    /\ tasks' = [tasks EXCEPT !["main"] = "inc_entityExists",
                              !["crt"] = IF ~shopSpecificTokenExists(call.shopId, call.customerId)
                                         THEN "cs_entityExists" ELSE tasks["crt"]]
    /\ UNCHANGED <<ledger, loc, outcome, writes>>
    /\ Frame

\* ---------------------------------------------------------------- system
Next ==
    \/ \E id \in ShopIds, m \in Multipliers, p \in MinPrices, x \in MaxPointsSet :
          createShop(id, m, p, x)
    \/ \E id \in CustomerIds : createCustomer(id)
    \/ \E s \in ShopIds, k \in Kinds, v \in Vals : createCouponType(s, k, v)
    \/ \E b \in IdBases, t \in TypeIds, o \in Owners, n \in Ns : createCoupon(b, t, o, n)
    \/ \E x \in ClientIds, id \in UserIds, r \in RoleStrings : register(x, id, r)
    \/ RgEntityExists
    \/ RgPutState
    \/ \E id \in CustomerIds, p \in UpdatePoints : updateCustomer(id, p)
    \/ \E t \in {"main", "upd"} : UcCustomerExists(t)
    \/ \E t \in {"main", "upd"} : UcPutState(t)
    \/ \E s \in ShopIds, c \in CustomerIds : createShopSpecificToken(s, c)
    \/ \E t \in {"main", "crt"} : CsEntityExists(t)
    \/ \E t \in {"main", "crt"} : CsShopExists(t)
    \/ \E t \in {"main", "crt"} : CsCustomerExists(t)
    \/ \E t \in {"main", "crt"} : CsPutState(t)
    \/ \E s \in ShopIds, c \in CustomerIds, a \in AddAmounts : increaseShopSpecificToken(s, c, a)
    \/ IncEntityExists
    \/ GetEntityExists
    \/ GetGetState
    \/ IncPutState
    \/ \E s \in ShopIds, c \in CustomerIds, a \in PaidAmounts : registerPurchase(s, c, a)
    \/ RpCustomerExists
    \/ RpShopExists
    \/ RpGetShop
    \/ RpGetCustomer
    \/ RpShopSpecificTokenExists

Spec == Init /\ [][Next]_vars

\* -------- the second revision of the contract in the same file, lines 426-655:
\* its createShop, createCouponType, createCoupon, createCustomer and
\* updateCustomer are those above; its registerPurchase ends at lines 592-601
\* line 578 answered; lines 579-601 run: updateCustomer is started and not
\* awaited, nothing is done with the shop-specific points, the handler returns
RpGetCustomerRev2 ==
    /\ tasks["main"] = "rp_getCustomer"
    /\ LET theCustomer == JSONParse(ledger[createCompositeKey(CUSTOMER, <<call.customerId>>)])
           sumPoints == SumPoints(loc.theShop, call.paidAmount)
           free == FreePointsToBeGiven(loc.theShop, sumPoints)
           specific == ShopSpecificPointsToBeGiven(sumPoints, free)
       IN  IF BelowMinPrice(loc.theShop, call.paidAmount)
           THEN /\ Return("main", "OK, but no points were given")
                /\ loc' = [loc EXCEPT !.theCustomer = theCustomer]
           ELSE /\ loc' = [loc EXCEPT !.theCustomer = [theCustomer EXCEPT !.points = theCustomer.points + free],
                                      !.freePointsToBeGiven = free,
                                      !.shopSpecificPointsToBeGiven = specific]
                /\ tasks' = [tasks EXCEPT !["main"] = "done", !["upd"] = "uc_customerExists"]
                /\ outcome' = "OK"
    /\ UNCHANGED <<ledger, writes>>
    /\ Frame

NextRev2 ==
    \/ \E id \in ShopIds, m \in Multipliers, p \in MinPrices, x \in MaxPointsSet :
          createShop(id, m, p, x)
    \/ \E id \in CustomerIds : createCustomer(id)
    \/ \E s \in ShopIds, k \in Kinds, v \in Vals : createCouponType(s, k, v)
    \/ \E b \in IdBases, t \in TypeIds, o \in Owners, n \in Ns : createCoupon(b, t, o, n)
    \/ \E id \in CustomerIds, p \in UpdatePoints : updateCustomer(id, p)
    \/ \E t \in {"main", "upd"} : UcCustomerExists(t)
    \/ \E t \in {"main", "upd"} : UcPutState(t)
    \/ \E s \in ShopIds, c \in CustomerIds, a \in PaidAmounts : registerPurchase(s, c, a)
    \/ RpCustomerExists
    \/ RpShopExists
    \/ RpGetShop
    \/ RpGetCustomerRev2

SpecRev2 == Init /\ [][NextRev2]_vars

\* ================================================================ claims
\* what the invocation found when it started
PreShop == JSONParse(pre[KeygenShop(call.shopId)])
PreCustomer == JSONParse(pre[KeygenCustomer(call.customerId)])
PreToken == JSONParse(pre[KeygenSst(call.shopId, call.customerId)])
PreHasShop == NonEmpty(pre[KeygenShop(call.shopId)])
PreHasCustomer == NonEmpty(pre[KeygenCustomer(call.customerId)])
PreHasToken == NonEmpty(pre[KeygenSst(call.shopId, call.customerId)])
NowCustomer == JSONParse(ledger[KeygenCustomer(call.customerId)])
NowHasToken == NonEmpty(ledger[KeygenSst(call.shopId, call.customerId)])
NowToken == JSONParse(ledger[KeygenSst(call.shopId, call.customerId)])
Answered == call.op # "none" /\ outcome # "none"
Failed == Answered /\ outcome \notin Successes

\* a registerPurchase on an existing shop and customer that passes the threshold
ValidPurchase ==
    /\ call.op = "registerPurchase"
    /\ PreHasShop /\ PreHasCustomer
    /\ call.paidAmount >= PreShop.minPriceToGetPoints

\* the split the specification prescribes, from the shop found at the start
SpecCapped ==
    LET raw == (call.paidAmount * PreShop.priceToPointsMultiplier) \div Scale
    IN  IF raw < PreShop.maxGivenPoints THEN raw ELSE PreShop.maxGivenPoints
SpecFree ==
    LET x == (SpecCapped * PreShop.freePointsPercentage) \div Scale
    IN  IF x % Scale = 0 THEN x
        ELSE IF 2 * (x % Scale) >= Scale THEN x - (x % Scale) + Scale ELSE x - (x % Scale)
SpecShopSpecific == SpecCapped - SpecFree

CreateOps == {"register", "createShop", "createCustomer", "createShopSpecificToken",
              "createCouponType", "createCoupon"}
AlreadyExists == {"register: a registration already exists",
                  "createShop: shop already exists",
                  "createCustomer: customer already exists",
                  "createShopSpecificToken: token already exists"}

\* C1 (as claimed): for every entity type, a create operation repeated right
\* after a successful one with the same identifying fields, while the first
\* record is stored, fails with AlreadyExists and leaves that record unchanged.
C1_SecondCreateFails ==
    (/\ Answered
     /\ call.op \in CreateOps
     /\ prev.op = call.op /\ prev.key = call.key /\ prev.outcome = "OK"
     /\ NonEmpty(pre[call.key]))
    => (outcome \in AlreadyExists /\ ledger[call.key] = pre[call.key])

\* C2 (as claimed): a registerPurchase on an existing shop and customer that
\* passes the threshold never answers the normal success while the increase of
\* Customer.points or the shop-specific award to the token is not persisted.
C2_SuccessMeansBothPersisted ==
    (ValidPurchase /\ outcome = "OK")
    => (/\ NowCustomer.points = PreCustomer.points + SpecFree
        /\ NowHasToken
        /\ NowToken.amount = (IF PreHasToken THEN PreToken.amount ELSE 0) + SpecShopSpecific)

\* C3 (as claimed): with no token stored for the pair, a registerPurchase that
\* passes the threshold succeeds and leaves a token of amount 0 + the
\* shop-specific points, and Customer.points increased by the free points.
C3_TokenAutoCreated ==
    (ValidPurchase /\ ~PreHasToken /\ Answered)
    => (/\ outcome = "OK"
        /\ NowHasToken
        /\ NowToken.amount = SpecShopSpecific
        /\ NowCustomer.points = PreCustomer.points + SpecFree)

\* C4 (as claimed): after a registerPurchase that passes the threshold the
\* customer's points and the token's amount are not below what they were before
\* it, and a token it created has amount >= 0.
C4_SettlementMonotone ==
    (ValidPurchase /\ Answered)
    => (/\ NowCustomer.points >= PreCustomer.points
        /\ NowHasToken => NowToken.amount >= (IF PreHasToken THEN PreToken.amount ELSE 0))

AwardComputed == call.op = "registerPurchase" /\ tasks["upd"] # "idle"

C6_ThresholdNoOp ==
    (/\ call.op = "registerPurchase" /\ Answered
     /\ PreHasShop /\ PreHasCustomer
     /\ call.paidAmount < PreShop.minPriceToGetPoints)
    => (/\ outcome = "OK, but no points were given"
        /\ writes = <<>>
        /\ ledger = pre
        /\ \A t \in TaskIds \ {"main"} : tasks[t] = "idle")

C6_Witness ==
    /\ call.op = "registerPurchase"
    /\ outcome = "OK, but no points were given"
    /\ PreHasToken
    /\ call.paidAmount < PreShop.minPriceToGetPoints

\* C7 (as claimed): an invocation that ends with an error has issued no putState.
C7_NoWriteOnError == Failed => writes = <<>>

\* C8 (as claimed): no step lowers a stored Customer.points or token amount, and
\* only registerPurchase and increaseShopSpecificToken change them.
C8_PointsOnlyGrow ==
    [][\A k \in Keys :
         (NonEmpty(ledger[k]) /\ k[1] \in {CUSTOMER, SHOP_SPECIFIC_TOKEN})
         => /\ NonEmpty(ledger'[k])
            /\ k[1] = CUSTOMER =>
                 /\ JSONParse(ledger'[k]).points >= JSONParse(ledger[k]).points
                 /\ JSONParse(ledger'[k]).points # JSONParse(ledger[k]).points
                      => call'.op = "registerPurchase"
            /\ k[1] = SHOP_SPECIFIC_TOKEN =>
                 /\ JSONParse(ledger'[k]).amount >= JSONParse(ledger[k]).amount
                 /\ JSONParse(ledger'[k]).amount # JSONParse(ledger[k]).amount
                      => call'.op \in {"registerPurchase", "increaseShopSpecificToken"}]_vars

\* C9 (as claimed): a registerPurchase on an existing shop, customer and token
\* that passes the threshold ends with Customer.points = old points + freePoints
\* and token amount = old amount + shopSpecificPoints.
C9_SplitPersisted ==
    (ValidPurchase /\ PreHasToken /\ Answered)
    => (/\ NowCustomer.points = PreCustomer.points + SpecFree
        /\ NowToken.amount = PreToken.amount + SpecShopSpecific)

\* C10: registerPurchase fails with the customer error when the customer is
\* missing (also when the shop is missing too), with the shop error when only
\* the shop is missing, and in both cases nothing was written.
C10_Preconditions ==
    (call.op = "registerPurchase" /\ Answered)
    => (/\ ~PreHasCustomer =>
             (outcome = "registerPurchase: no customer" /\ writes = <<>> /\ ledger = pre)
        /\ (PreHasCustomer /\ ~PreHasShop) =>
             (outcome = "registerPurchase: no shop" /\ writes = <<>> /\ ledger = pre)
        /\ (PreHasCustomer /\ PreHasShop) =>
             outcome \notin {"registerPurchase: no customer", "registerPurchase: no shop"})

C10_Witness ==
    /\ call.op = "registerPurchase"
    /\ outcome = "registerPurchase: no customer"
    /\ ~PreHasCustomer /\ ~PreHasShop

\* what a register call answers and issues, from the world state it found
RegisterOutcome ==
    (call.op = "register" /\ Answered)
    => LET key == KeygenUser(call.client)
       IN  /\ NonEmpty(pre[key]) =>
                 (/\ outcome = "register: a registration already exists"
                  /\ writes = <<>> /\ ledger = pre)
           /\ (~NonEmpty(pre[key]) /\ loc.newUser.role \notin UserRoles) =>
                 (/\ outcome = "register: invalid input for User Role"
                  /\ writes = <<>> /\ ledger = pre)
           /\ (~NonEmpty(pre[key]) /\ loc.newUser.role \in UserRoles) =>
                 (/\ outcome = "OK"
                  /\ writes = <<key>>
                  /\ \A k \in Keys \ {key} : ledger[k] = pre[k]
                  /\ NonEmpty(ledger[key]) => JSONParse(ledger[key]) = loc.newUser)

\* a stored User record stays as it is
UserRecordFrozen ==
    \A k \in Keys : (k[1] = USER /\ NonEmpty(ledger[k])) => ledger'[k] = ledger[k]

\* C11: register fails with the registration error when a User record is stored
\* under the caller's key (whatever the role string), fails with the role error
\* when the role string is not admin, shop or customer, and otherwise issues one
\* putState of the User record under the caller's key; a failed register issues
\* no putState, and no step of any operation changes a stored User record.
C11_Register == []RegisterOutcome /\ [][UserRecordFrozen]_vars

C11_Witness ==
    /\ call.op = "register"
    /\ outcome = "register: a registration already exists"
    /\ loc.newUser.role = "manager"
    /\ JSONParse(ledger[KeygenUser(call.client)]).role \in UserRoles

\* the arguments of a createCoupon call, from its first coupon key
CallTypeId == call.key[3]
CallIdBase == call.key[2][1]
CallCouponKeys == {KeyCoupon(CouponId(CallIdBase, i), CallTypeId) : i \in 0 .. (call.n - 1)}
PreTypeActive ==
    /\ NonEmpty(pre[CallTypeId])
    /\ "active" \in DOMAIN JSONParse(pre[CallTypeId])
    /\ JSONParse(pre[CallTypeId]).active

\* C12: a createCoupon with n >= 1 against a stored coupon type with active =
\* true answers OK and has issued exactly n putStates, the i-th under the key
\* (COUPON, idBase_i, typeId) for i = 0 .. n-1; every one of these keys then
\* holds a coupon with that id, the typeId, one common owner, validUntil and
\* seriesId, whatever was stored there before, and no other key has changed.
C12_CreateCouponSuccess ==
    (call.op = "createCoupon" /\ Answered /\ call.n >= 1 /\ PreTypeActive)
    => (/\ outcome = "OK"
        /\ Len(writes) = call.n
        /\ \A i \in 0 .. (call.n - 1) :
              writes[i + 1] = KeyCoupon(CouponId(CallIdBase, i), CallTypeId)
        /\ \E o \in Owners : \A i \in 0 .. (call.n - 1) :
              ledger[KeyCoupon(CouponId(CallIdBase, i), CallTypeId)] =
                 Stringify([id |-> CouponId(CallIdBase, i), typeId |-> CallTypeId, owner |-> o,
                            validUntil |-> ValidUntil, seriesId |-> SeriesId])
        /\ \A k \in Keys \ CallCouponKeys : ledger[k] = pre[k])

C12_Witness ==
    /\ call.op = "createCoupon" /\ outcome = "OK" /\ call.n = 2
    /\ NonEmpty(pre[call.key])
    /\ JSONParse(pre[call.key]).owner # JSONParse(ledger[call.key]).owner
    /\ ~NonEmpty(pre[KeyCoupon(CouponId(CallIdBase, 1), CallTypeId)])

\* C13: createCoupon fails with the N error when n < 1, whatever is stored at
\* typeId; with the does-not-exist error when n >= 1 and nothing is stored at
\* typeId; with the not-active error when n >= 1 and the value stored at typeId
\* has no true `active`; a failed createCoupon has issued no putState and left
\* the world state as it found it.
C13_CreateCouponFailures ==
    (call.op = "createCoupon" /\ Answered)
    => (/\ call.n < 1 => outcome = "createCoupon: N must be 1 or higher"
        /\ (call.n >= 1 /\ ~NonEmpty(pre[CallTypeId])) =>
              outcome = "createCoupon: the TypeID does not exist"
        /\ (call.n >= 1 /\ NonEmpty(pre[CallTypeId]) /\ ~PreTypeActive) =>
              outcome = "createCoupon: the coupon type is not currently active"
        /\ Failed => (writes = <<>> /\ ledger = pre))

C13_Witness ==
    /\ call.op = "createCoupon"
    /\ outcome = "createCoupon: the coupon type is not currently active"
    /\ prev.op = "createCoupon"
    /\ prev.outcome = "createCoupon: N must be 1 or higher"
    /\ ~NonEmpty(pre[prev.key[3]])

\* C14: an increaseShopSpecificToken invoked on its own fails with the
\* no-such-token error, having issued no putState and changed nothing, when no
\* token is stored for the pair; otherwise it answers OK, the stored token has
\* the amount it had plus addAmount and the same shopId and customerId, the
\* only putState issued is the one to the token's key and no other key changed.
C14_IncreaseToken ==
    (call.op = "increaseShopSpecificToken" /\ Answered)
    => (/\ ~PreHasToken =>
              (/\ outcome = "increaseShopSpecificToken: no such token exists yet"
               /\ writes = <<>> /\ ledger = pre)
        /\ PreHasToken =>
              (/\ outcome = "OK"
               /\ NowToken.amount = PreToken.amount + loc.addAmount
               /\ NowToken.shopId = PreToken.shopId
               /\ NowToken.customerId = PreToken.customerId
               /\ writes = <<KeygenSst(call.shopId, call.customerId)>>
               /\ \A k \in Keys \ {KeygenSst(call.shopId, call.customerId)} : ledger[k] = pre[k]))

C14_Witness ==
    /\ call.op = "increaseShopSpecificToken" /\ outcome = "OK"
    /\ PreHasToken
    /\ loc.addAmount = 1
    /\ NowToken.amount = PreToken.amount + 1
    /\ prev.op = "createShopSpecificToken"

\* what a createShopSpecificToken call invoked on its own answers and issues
CreateTokenOutcome ==
    (call.op = "createShopSpecificToken" /\ Answered)
    => (/\ PreHasToken =>
              (/\ outcome = "createShopSpecificToken: token already exists"
               /\ writes = <<>> /\ ledger = pre)
        /\ (~PreHasToken /\ ~PreHasShop) =>
              (/\ outcome = "createShopSpecificToken: no shop"
               /\ writes = <<>> /\ ledger = pre)
        /\ (~PreHasToken /\ PreHasShop /\ ~PreHasCustomer) =>
              (/\ outcome = "createShopSpecificToken: no customer"
               /\ writes = <<>> /\ ledger = pre)
        /\ (~PreHasToken /\ PreHasShop /\ PreHasCustomer) =>
              (/\ outcome = "OK"
               /\ writes = <<KeygenSst(call.shopId, call.customerId)>>
               /\ NowToken = [shopId |-> call.shopId, customerId |-> call.customerId, amount |-> 0]
               /\ \A k \in Keys \ {KeygenSst(call.shopId, call.customerId)} : ledger[k] = pre[k]))

\* every stored token is the token of the pair in its key, and the shop and the
\* customer of that pair are stored
TokensReferToStored ==
    \A s \in ShopIds, c \in CustomerIds :
        NonEmpty(ledger[KeygenSst(s, c)])
        => (/\ JSONParse(ledger[KeygenSst(s, c)]).shopId = s
            /\ JSONParse(ledger[KeygenSst(s, c)]).customerId = c
            /\ NonEmpty(ledger[KeygenShop(s)])
            /\ NonEmpty(ledger[KeygenCustomer(c)]))

\* C15: createShopSpecificToken fails, issuing no putState, when a token is
\* stored for the pair, else when the shop is not stored, else when the
\* customer is not stored, and otherwise stores a token of amount 0 for the
\* pair; in every reachable world state (also while a registerPurchase is
\* creating a token on the side) each stored token is the one token of its
\* pair and that pair's shop and customer are stored.
C15_TokenCreation == CreateTokenOutcome /\ TokensReferToStored

C15_Witness ==
    /\ call.op = "createShopSpecificToken"
    /\ outcome = "createShopSpecificToken: token already exists"
    /\ prev.op = "createShopSpecificToken" /\ prev.outcome = "OK"
    /\ NowToken.amount = 0

\* a createShop step and a createCustomer step, by their arguments
CreateShopStep ==
    \A id \in ShopIds, m \in Multipliers, p \in MinPrices, x \in MaxPointsSet :
        (call'.op = "createShop" /\ ncalls' # ncalls /\ createShop(id, m, p, x))
        => IF NonEmpty(ledger[KeygenShop(id)])
           THEN /\ outcome' = "createShop: shop already exists"
                /\ writes' = <<>> /\ ledger' = ledger
           ELSE /\ outcome' = "OK"
                /\ writes' = <<KeygenShop(id)>>
                /\ ledger'[KeygenShop(id)] =
                      Stringify([id |-> id, priceToPointsMultiplier |-> m,
                                 minPriceToGetPoints |-> p, maxGivenPoints |-> x,
                                 freePointsPercentage |-> Scale])
                /\ \A k \in Keys \ {KeygenShop(id)} : ledger'[k] = ledger[k]
CreateCustomerStep ==
    \A id \in CustomerIds :
        (call'.op = "createCustomer" /\ ncalls' # ncalls /\ createCustomer(id))
        => IF NonEmpty(ledger[KeygenCustomer(id)])
           THEN /\ outcome' = "createCustomer: customer already exists"
                /\ writes' = <<>> /\ ledger' = ledger
           ELSE /\ outcome' = "OK"
                /\ writes' = <<KeygenCustomer(id)>>
                /\ ledger'[KeygenCustomer(id)] = Stringify([id |-> id, points |-> 0])
                /\ \A k \in Keys \ {KeygenCustomer(id)} : ledger'[k] = ledger[k]

\* C16: a createShop on an id that is not stored answers OK and stores a shop
\* with the given multiplier, minPrice and maxPoints and freePointsPercentage
\* 1.0; a createCustomer on an id that is not stored answers OK and stores a
\* customer with 0 points; on a stored id either call fails and leaves the
\* world state, the customer's accumulated points included, as it was.
C16_InitialRecords == [][CreateShopStep /\ CreateCustomerStep]_vars

C16_Witness ==
    /\ call.op = "createCustomer"
    /\ outcome = "createCustomer: customer already exists"
    /\ NowCustomer.points > 0
    /\ NonEmpty(ledger[KeygenShop("s1")])
    /\ JSONParse(ledger[KeygenShop("s1")]).freePointsPercentage = Scale

\* the invocation registered a new customer: a createCustomer, or a register
\* with the customer role, that succeeded where no Customer was stored
RegisteredNewCustomer ==
    /\ outcome = "OK"
    /\ \/ call.op = "createCustomer" /\ ~PreHasCustomer
       \/ /\ call.op = "register" /\ loc.newUser.role = "customer"
          /\ \A c \in CustomerIds : ~NonEmpty(pre[KeygenCustomer(c)])

\* C17 (as claimed): an invocation that registers a new customer has issued
\* exactly two putStates, one under a Customer key and one under a User key.
C17_RegisterCustomerTwoWrites ==
    RegisteredNewCustomer
    => (/\ Len(writes) = 2
        /\ \E i \in 1 .. Len(writes) : writes[i][1] = CUSTOMER
        /\ \E i \in 1 .. Len(writes) : writes[i][1] = USER)

\* how many putStates the invocation has issued to key k
WritesTo(k) == Cardinality({i \in 1 .. Len(writes) : writes[i] = k})

\* C18 (as claimed): a registerPurchase that answers the normal success with a
\* non-zero award has issued exactly one putState to the customer's key, one
\* putState of the increased token to the token's key, one more to the token's
\* key (creating it) exactly if no token was stored when the call started, and
\* no putState to any other key.
C18_WriteCount ==
    (/\ ValidPurchase /\ outcome = "OK"
     /\ loc.freePointsToBeGiven + loc.shopSpecificPointsToBeGiven # 0)
    => (/\ WritesTo(KeygenCustomer(call.customerId)) = 1
        /\ WritesTo(KeygenSst(call.shopId, call.customerId)) = (IF PreHasToken THEN 1 ELSE 2)
        /\ Len(writes) = (IF PreHasToken THEN 2 ELSE 3))

\* C19 (as claimed): when a register or a registerPurchase has answered, every
\* coroutine it started (the putState of register, updateCustomer,
\* createShopSpecificToken) has finished: none is still waiting for the stub.
C19_CompletionBeforeReturn ==
    (call.op \in {"register", "registerPurchase"} /\ Answered)
    => \A t \in TaskIds \ {"main"} : tasks[t] \in {"idle", "done"}

\* C20 (as claimed): two registerPurchase executions with the same arguments
\* from the same world state answer the same outcome, whatever the order in
\* which the stub answers their requests.
C20_SettlementDeterministic ==
    (/\ call.op = "registerPurchase" /\ Answered
     /\ prev.op = "registerPurchase"
     /\ prev.call = call
     /\ prev.pre = pre)
    => outcome = prev.outcome

\* x rounded to the nearest whole number, halves upwards (x >= 0)
RoundHalfUp(x) == x - (x % Scale) + (IF 2 * (x % Scale) >= Scale THEN Scale ELSE 0)

\* every stored shop has freePointsPercentage 1.0, and a registerPurchase that
\* computed its award gives capped - round(capped) as the shop-specific share
ShopsAllFree ==
    /\ \A s \in ShopIds :
          NonEmpty(ledger[KeygenShop(s)])
          => JSONParse(ledger[KeygenShop(s)]).freePointsPercentage = Scale
    /\ AwardComputed =>
          (/\ loc.shopSpecificPointsToBeGiven = SpecCapped - RoundHalfUp(SpecCapped)
           /\ SpecCapped % Scale = 0 => loc.shopSpecificPointsToBeGiven = 0)

\* no step changes a stored shop
ShopRecordFrozen ==
    \A s \in ShopIds :
        NonEmpty(ledger[KeygenShop(s)]) => ledger'[KeygenShop(s)] = ledger[KeygenShop(s)]

\* C21: in every reachable world state every stored shop has
\* freePointsPercentage 1.0, no step of any operation changes a stored shop
\* (it keeps the multiplier, minPrice and maxPoints it was created with), and
\* the shop-specific share a registerPurchase computes is capped -
\* round(capped), which is 0 when capped is a whole number.
C21_ShopFrozen == []ShopsAllFree /\ [][ShopRecordFrozen]_vars

C21_Witness ==
    /\ AwardComputed
    /\ SpecCapped > 0 /\ SpecCapped % Scale = 0
    /\ SpecCapped < PreShop.maxGivenPoints
    /\ loc.shopSpecificPointsToBeGiven = 0
    /\ prev.op = "createShop" /\ prev.outcome = "createShop: shop already exists"

\* every stored coupon type has active = true
CouponTypesActive ==
    \A s \in ShopIds, k \in Kinds, v \in Vals :
        NonEmpty(ledger[KeygenCouponType(s, k, v)])
        => JSONParse(ledger[KeygenCouponType(s, k, v)]).active = TRUE

\* C22 (as claimed): in every reachable world state every stored coupon type
\* has active = true, and no createCoupon fails with the not-active error.
C22_InactiveUnreachable ==
    /\ CouponTypesActive
    /\ outcome # "createCoupon: the coupon type is not currently active"

\* the two keys a registerPurchase call may write
PurchaseKeys == {KeygenCustomer(call.customerId), KeygenSst(call.shopId, call.customerId)}

\* C23: at every moment of a registerPurchase invocation, answered or not and
\* whatever the answer, every putState it has issued is to the key of its
\* customer or of the token of its (shop, customer) pair, every other key (the
\* shops, users, coupon types, coupons, other customers, other pairs' tokens)
\* holds what it held when the call started, and every key that held a record
\* then still holds one.
C23_PurchaseFrame ==
    (call.op = "registerPurchase")
    => (/\ \A i \in 1 .. Len(writes) : writes[i] \in PurchaseKeys
        /\ \A k \in Keys \ PurchaseKeys : ledger[k] = pre[k]
        /\ \A k \in Keys : NonEmpty(pre[k]) => NonEmpty(ledger[k]))

C23_Witness ==
    /\ call.op = "registerPurchase" /\ Answered
    /\ ledger[KeygenCustomer(call.customerId)] # pre[KeygenCustomer(call.customerId)]
    /\ \E c \in CustomerIds \ {call.customerId} : NonEmpty(ledger[KeygenCustomer(c)])
    /\ Len(writes) > 0

====
